---- MODULE Spec2Model ----
(***************************************************************************)
(* Schema-versioned migration engine of the futures trading journal:       *)
(* migrations.py (MigrationManager, Migration001, Migration002) and the    *)
(* bootstrap code of database.py, billing_model.py and physical_model.py,  *)
(* over an SQLite store accessed through Python's sqlite3 module.          *)
(*                                                                         *)
(* The store is modelled at the level of tables, columns, rows and the     *)
(* schema_version ledger.  A connection follows sqlite3's default          *)
(* (legacy) transaction control: a DDL statement executed while no         *)
(* transaction is open is committed at once, an INSERT/DELETE opens a      *)
(* transaction that lasts until commit(), and a connection dropped         *)
(* without commit() loses what its open transaction wrote.                 *)
(***************************************************************************)
EXTENDS Integers, Sequences, FiniteSets, TLC

(***************************************************************************)
(* Bounds of the model.                                                    *)
(***************************************************************************)
MaxTarget == 3
MaxClock == 2
MaxTradeRows == 1
MaxBillingRows == 2

(***************************************************************************)
(* Column lists, in declaration order.                                     *)
(***************************************************************************)
Range(s) == {s[i] : i \in 1..Len(s)}

NULL == "NULL"

SupplierCols == <<"supplier", "settlement_price", "premium", "physical_tons", "related_po">>

TradesTempCols ==
    <<"id", "trade_date", "exchange", "product_name", "contract", "direction",
      "entry_price", "quantity", "stop_loss", "take_profit", "exit_price",
      "exit_date", "fee", "profit_loss", "status", "ma5", "ma10", "ma20",
      "rsi", "macd", "entry_reason", "market_trend", "notes",
      "created_at", "updated_at">>

TradesCols ==
    <<"id", "trade_date", "exchange", "product_name", "contract", "direction",
      "entry_price", "quantity",
      "supplier", "settlement_price", "premium", "physical_tons", "related_po",
      "stop_loss", "take_profit", "exit_price",
      "exit_date", "fee", "profit_loss", "status", "ma5", "ma10", "ma20",
      "rsi", "macd", "entry_reason", "market_trend", "notes",
      "created_at", "updated_at">>

PriceCols ==
    <<"id", "price_date", "highest_price", "lowest_price", "average_price",
      "created_at", "updated_at">>

ProductsCols == <<"id", "name", "exchange", "created_at", "updated_at">>

\* billing_records as created by Migration002_AddBillingTable.up
BillingColsMigration ==
    <<"id", "trade_id", "billing_month", "base_month", "base_price",
      "settlement_price", "quantity", "physical_tons", "settlement_amount",
      "discount", "related_po", "notes", "created_at", "updated_at">>

\* billing_records as created by BillingDatabase.init_database
BillingColsBootstrap ==
    <<"id", "trade_id", "billing_month", "base_month", "base_price",
      "settlement_price", "quantity", "physical_tons", "settlement_amount",
      "discount", "notes", "created_at", "updated_at">>

\* the columns Migration002 writes and the legacy columns it reads
BillingCopyInto ==
    <<"id", "trade_id", "billing_month", "base_month", "base_price",
      "settlement_price", "quantity", "physical_tons", "settlement_amount",
      "discount", "notes", "created_at", "updated_at">>

\* variant: billing_date and base_month exchanged in the SELECT list
BillingCopyFromSwapped ==
    <<"id", "trade_id", "base_month", "billing_date", "base_price",
      "settlement_price", "quantity", "physical_tons", "settlement_amount",
      "discount", "notes", "created_at", "updated_at">>

BillingCopyFrom ==
    <<"id", "trade_id", "billing_date", "base_month", "base_price",
      "settlement_price", "quantity", "physical_tons", "settlement_amount",
      "discount", "notes", "created_at", "updated_at">>

\* the legacy billing_records table: the columns Migration002 expects in it
LegacyBillingCols ==
    <<"id", "trade_id", "billing_date", "base_month", "base_price",
      "settlement_price", "quantity", "physical_tons", "settlement_amount",
      "discount", "notes", "created_at", "updated_at">>

SchemaVersionCols == <<"version", "description", "applied_at", "execution_time">>

PhysicalNewCols ==
    <<"id", "purchase_date", "supplier", "product_name", "quantity",
      "unit_price", "premium", "total_amount", "po_number", "delivery_date",
      "status", "notes", "created_at", "updated_at">>

PhysicalCopyCols ==
    <<"id", "purchase_date", "supplier", "product_name", "quantity",
      "unit_price", "total_amount", "po_number", "delivery_date",
      "status", "notes", "created_at", "updated_at">>

RelationCols == <<"id", "purchase_id", "trade_id", "created_at">>

DataTables ==
    {"trades", "trades_temp", "billing_records", "billing_records_old",
     "smm_prices", "futures_prices", "products",
     "physical_purchases", "physical_purchases_new", "purchase_trade_relations"}

TableNames == DataTables \cup {"schema_version"}

\* columns under a PRIMARY KEY or UNIQUE constraint
UniqueCols(t) ==
    CASE t \in {"billing_records", "billing_records_old"} -> {"id", "trade_id"}
      [] t = "products" -> {"id", "name"}
      [] t \in {"smm_prices", "futures_prices"} -> {"id", "price_date"}
      [] OTHER -> {"id"}

(***************************************************************************)
(* The store: cols[t] is the column list of table t (<<>> when the table   *)
(* does not exist), rows[t] its rows (functions from column to value),     *)
(* ledger the rows of schema_version.                                      *)
(***************************************************************************)
\* [x \in S |-> e] as an explicit function value. TLC keeps [x \in S |-> e]
\* unevaluated and only records an EXCEPT applied to it; the recorded updates
\* are then shared by the states built from one another, and worker threads
\* that evaluate them at the same time disturb each other.
Explicit(f) == f @@ f

EmptyStore ==
    [cols |-> Explicit([t \in TableNames |-> <<>>]),
     rows |-> Explicit([t \in DataTables |-> {}]),
     ledger |-> {}]

Exists(d, t) == d.cols[t] # <<>>

ColSet(d, t) == Range(d.cols[t])

Tables(d) == {t \in TableNames : Exists(d, t)}

\* the tables and, per table, its set of columns
Schema(d) == [t \in TableNames |-> ColSet(d, t)]

(***************************************************************************)
(* A connection: db is what the connection sees, saved the last committed  *)
(* store, inTx whether a transaction is open, err whether a statement has  *)
(* raised.  After err nothing more executes.  fuel is the number of        *)
(* writing statements the process still executes before it is killed       *)
(* (Unlimited when it is not killed); killed tells a kill from an          *)
(* exception.                                                              *)
(***************************************************************************)
Unlimited == 0 - 1

ConnectFuel(d, n) ==
    [db |-> d, saved |-> d, inTx |-> FALSE, err |-> FALSE,
     fuel |-> n, killed |-> FALSE]

Connect(d) == ConnectFuel(d, Unlimited)

Raise(c) == [c EXCEPT !.err = TRUE]

\* the statement that is not executed: an earlier one raised, or the process dies
Halted(c) == c.err \/ c.fuel = 0

Halt(c) == IF c.err THEN c ELSE [c EXCEPT !.err = TRUE, !.killed = TRUE]

Burn(c) == IF c.fuel > 0 THEN [c EXCEPT !.fuel = @ - 1] ELSE c

\* a DDL statement: sqlite3 opens no transaction for it
Ddl(c, d) ==
    Burn([c EXCEPT !.db = d, !.saved = IF c.inTx THEN c.saved ELSE d])

\* INSERT / UPDATE / DELETE: sqlite3 issues BEGIN first
Dml(c, d) == Burn([c EXCEPT !.db = d, !.inTx = TRUE])

Commit(c) ==
    IF Halted(c) THEN Halt(c)
    ELSE Burn([c EXCEPT !.saved = c.db, !.inTx = FALSE])

\* the store once the connection is gone: an open transaction is rolled back
Closed(c) == c.saved

CreateTable(c, t, columns) ==
    IF Halted(c) THEN Halt(c)
    ELSE IF Exists(c.db, t) THEN Raise(c)
    ELSE Ddl(c, [c.db EXCEPT !.cols[t] = columns])

\* variant: CREATE TABLE written without IF NOT EXISTS
CreateTableNew(c, t, columns) == CreateTable(c, t, columns)

CreateTableIfNotExists(c, t, columns) ==
    IF Halted(c) THEN Halt(c)
    ELSE IF Exists(c.db, t) THEN c
    ELSE Ddl(c, [c.db EXCEPT !.cols[t] = columns])

ClearTable(d, t) ==
    IF t = "schema_version"
    THEN [d EXCEPT !.cols[t] = <<>>, !.ledger = {}]
    ELSE [d EXCEPT !.cols[t] = <<>>, !.rows[t] = {}]

DropTable(c, t) ==
    IF Halted(c) THEN Halt(c)
    ELSE IF ~Exists(c.db, t) THEN Raise(c)
    ELSE Ddl(c, ClearTable(c.db, t))

DropTableIfExists(c, t) ==
    IF Halted(c) THEN Halt(c)
    ELSE IF ~Exists(c.db, t) THEN c
    ELSE Ddl(c, ClearTable(c.db, t))

RenameTable(c, from, to) ==
    IF Halted(c) THEN Halt(c)
    ELSE IF ~Exists(c.db, from) \/ Exists(c.db, to) THEN Raise(c)
    ELSE Ddl(c, [c.db EXCEPT !.cols[to] = c.db.cols[from],
                             !.rows[to] = c.db.rows[from],
                             !.cols[from] = <<>>,
                             !.rows[from] = {}])

AddColumn(c, t, col) ==
    IF Halted(c) THEN Halt(c)
    ELSE IF ~Exists(c.db, t) \/ col \in ColSet(c.db, t) THEN Raise(c)
    ELSE Ddl(c, [c.db EXCEPT
                   !.cols[t] = Append(c.db.cols[t], col),
                   !.rows[t] = {[k \in ColSet(c.db, t) \cup {col} |->
                                    IF k = col THEN NULL ELSE r[k]]
                                : r \in c.db.rows[t]}])

\* position of a column in a column list
IndexOf(s, x) == CHOOSE i \in 1..Len(s) : s[i] = x

\* the value of a column an INSERT leaves out: its DEFAULT
DefaultOf(t, k) ==
    IF t = "physical_purchases_new" /\ k = "premium" THEN "0" ELSE NULL

\* the row INSERT INTO to (into) SELECT from_ FROM ... builds out of row r
CopyRow(d, to, into, from, r) ==
    [k \in ColSet(d, to) |->
        IF k \in Range(into) THEN r[from[IndexOf(into, k)]]
        ELSE DefaultOf(to, k)]

Conflict(t, old, new) ==
    \E k \in UniqueCols(t) :
        \/ \E a \in old, b \in new : a[k] = b[k]
        \/ \E a \in new, b \in new : a # b /\ a[k] = b[k]

\* INSERT INTO to (into) SELECT from FROM src
InsertSelect(c, to, into, src, from) ==
    IF Halted(c) THEN Halt(c)
    ELSE IF \/ ~Exists(c.db, to)
            \/ ~Exists(c.db, src)
            \/ ~(Range(into) \subseteq ColSet(c.db, to))
            \/ ~(Range(from) \subseteq ColSet(c.db, src))
         THEN Raise(c)
    ELSE LET new == {CopyRow(c.db, to, into, from, r) : r \in c.db.rows[src]}
         IN  IF Conflict(to, c.db.rows[to], new)
             THEN Raise([c EXCEPT !.inTx = TRUE])
             ELSE Dml(c, [c.db EXCEPT !.rows[to] = c.db.rows[to] \cup new])

InsertProduct(c, id, name, exchange) ==
    IF Halted(c) THEN Halt(c)
    ELSE IF ~Exists(c.db, "products") THEN Raise(c)
    ELSE LET row == [k \in ColSet(c.db, "products") |->
                        CASE k = "id" -> id
                          [] k = "name" -> name
                          [] k = "exchange" -> exchange
                          [] k \in {"created_at", "updated_at"} -> "now"
                          [] OTHER -> NULL]
         IN  IF Conflict("products", c.db.rows["products"], {row})
             THEN Raise([c EXCEPT !.inTx = TRUE])
             ELSE Dml(c, [c.db EXCEPT !.rows["products"] = @ \cup {row}])

(***************************************************************************)
(* The ledger (table schema_version).                                      *)
(***************************************************************************)
Max(S) == CHOOSE m \in S : \A x \in S : x <= m

Min(S) == CHOOSE m \in S : \A x \in S : m <= x

Versions(d) == {r.version : r \in d.ledger}

\* variant: schema_version declared without its PRIMARY KEY
InsertLedgerNoKey(c, version, description, now) ==
    IF Halted(c) THEN Halt(c)
    ELSE IF ~Exists(c.db, "schema_version") THEN Raise([c EXCEPT !.inTx = TRUE])
    ELSE Dml(c, [c.db EXCEPT !.ledger = @ \cup
                    {[version |-> version, description |-> description,
                      applied_at |-> now]}])

\* INSERT INTO schema_version: version is the PRIMARY KEY
InsertLedger(c, version, description, now) ==
    IF Halted(c) THEN Halt(c)
    ELSE IF ~Exists(c.db, "schema_version") \/ version \in Versions(c.db)
         THEN Raise([c EXCEPT !.inTx = TRUE])
    ELSE Dml(c, [c.db EXCEPT !.ledger = @ \cup
                    {[version |-> version, description |-> description,
                      applied_at |-> now]}])

\* DELETE FROM schema_version WHERE version = ?
DeleteLedger(c, version) ==
    IF Halted(c) THEN Halt(c)
    ELSE IF ~Exists(c.db, "schema_version") THEN Raise([c EXCEPT !.inTx = TRUE])
    ELSE Dml(c, [c.db EXCEPT !.ledger = {r \in @ : r.version # version}])

\* variant: the ledger table dropped and created anew by every migrate
_init_schema_version_fresh(c) ==
    CreateTable(DropTableIfExists(c, "schema_version"), "schema_version",
                SchemaVersionCols)

_init_schema_version(c) ==
    CreateTableIfNotExists(c, "schema_version", SchemaVersionCols)

get_current_version(d) ==
    IF ~Exists(d, "schema_version") THEN 0
    ELSE IF d.ledger = {} THEN 0
    ELSE Max(Versions(d))

RECURSIVE SortedSeq(_)
SortedSeq(S) ==
    IF S = {} THEN <<>>
    ELSE LET m == Min(S) IN <<m>> \o SortedSeq(S \ {m})

get_applied_migrations(d) ==
    IF ~Exists(d, "schema_version") THEN <<>>
    ELSE SortedSeq(Versions(d))

(***************************************************************************)
(* Migration001_AddSupplierFields                                          *)
(***************************************************************************)
\* variant: the column added without looking at table_info
AddAlways(c, columns, col) == AddColumn(c, "trades", col)

AddIfMissing(c, columns, col) ==
    IF col \in columns THEN c ELSE AddColumn(c, "trades", col)

RECURSIVE AddSupplierCols(_, _, _)
AddSupplierCols(c, columns, i) ==
    IF i > Len(SupplierCols) THEN c
    ELSE AddSupplierCols(AddIfMissing(c, columns, SupplierCols[i]), columns, i + 1)

\* PRAGMA table_info of a missing table returns no row
Migration001Up(c) ==
    IF c.err THEN c ELSE AddSupplierCols(c, ColSet(c.db, "trades"), 1)

\* variant: the rebuilt table renamed without the rows copied into it
Migration001DownNoCopy(c) ==
    LET c1 == CreateTable(c, "trades_temp", TradesTempCols)
        c3 == DropTable(c1, "trades")
    IN  RenameTable(c3, "trades_temp", "trades")

Migration001Down(c) ==
    LET c1 == CreateTable(c, "trades_temp", TradesTempCols)
        c2 == InsertSelect(c1, "trades_temp", TradesTempCols, "trades", TradesTempCols)
        c3 == DropTable(c2, "trades")
    IN  RenameTable(c3, "trades_temp", "trades")

(***************************************************************************)
(* Migration002_AddBillingTable                                            *)
(***************************************************************************)
LegacyBilling(d) ==
    /\ Exists(d, "billing_records")
    /\ "billing_date" \in ColSet(d, "billing_records")
    /\ "billing_month" \notin ColSet(d, "billing_records")

\* variant: the legacy table dropped without copying its rows
Migration002UpNoCopy(c) ==
    IF c.err THEN c
    ELSE
    LET c1 == IF LegacyBilling(c.db)
              THEN RenameTable(c, "billing_records", "billing_records_old")
              ELSE c
        c2 == CreateTableIfNotExists(c1, "billing_records", BillingColsMigration)
    IN  IF ~c2.err /\ Exists(c2.db, "billing_records_old")
        THEN DropTable(c2, "billing_records_old")
        ELSE c2

Migration002Up(c) ==
    IF c.err THEN c
    ELSE
    LET c1 == IF LegacyBilling(c.db)
              THEN RenameTable(c, "billing_records", "billing_records_old")
              ELSE c
        c2 == CreateTableIfNotExists(c1, "billing_records", BillingColsMigration)
    IN  IF ~c2.err /\ Exists(c2.db, "billing_records_old")
        THEN DropTable(InsertSelect(c2, "billing_records", BillingCopyInto,
                                    "billing_records_old", BillingCopyFrom),
                       "billing_records_old")
        ELSE c2

\* variant: down that leaves the table in place
Migration002DownKeep(c) == c

Migration002Down(c) == DropTableIfExists(c, "billing_records")

(***************************************************************************)
(* MigrationManager                                                        *)
(***************************************************************************)
\* the keys of self.migrations
Registered == {1, 2}

Description(v) == IF v = 1 THEN "add supplier fields" ELSE "add billing table"

Up(v, c) == IF v = 1 THEN Migration001Up(c) ELSE Migration002Up(c)

Down(v, c) == IF v = 1 THEN Migration001Down(c) ELSE Migration002Down(c)

LatestVersion == IF Registered = {} THEN 0 ELSE Max(Registered)

\* variant: the filter written version >= current_version
get_pending_inclusive(d) ==
    SelectSeq(SortedSeq(Registered), LAMBDA v : v >= get_current_version(d))

get_pending_migrations(d) ==
    SelectSeq(SortedSeq(Registered), LAMBDA v : v > get_current_version(d))

\* variant: the ledger row committed before the step is applied
ApplyStepLedgerFirst(c, v, now) ==
    Commit(Up(v, Commit(InsertLedger(c, v, Description(v), now))))

\* one round of migrate's loop: up, ledger insert, commit
ApplyStep(c, v, now) ==
    Commit(InsertLedger(Up(v, c), v, Description(v), now))

\* variant: the loop written range(current + 1, target)
RECURSIVE MigrateLoopShort(_, _, _, _)
MigrateLoopShort(c, v, target, now) ==
    IF c.err \/ v >= target THEN [conn |-> c, clock |-> now]
    ELSE IF v \notin Registered THEN MigrateLoopShort(c, v + 1, target, now)
    ELSE MigrateLoopShort(ApplyStep(c, v, now), v + 1, target, now + 1)

\* the loop of migrate from version v to target; now is the next clock reading
RECURSIVE MigrateLoop(_, _, _, _)
MigrateLoop(c, v, target, now) ==
    IF c.err \/ v > target THEN [conn |-> c, clock |-> now]
    ELSE IF v \notin Registered THEN MigrateLoop(c, v + 1, target, now)
    ELSE MigrateLoop(ApplyStep(c, v, now), v + 1, target, now + 1)

\* the target of a call: <<>> is None, <<t>> is t
TargetOf(arg) == IF arg = <<>> THEN LatestVersion ELSE arg[1]

\* variant: the test written target < current
AlreadyCurrentStrict(current_version, arg) == TargetOf(arg) < current_version

AlreadyCurrent(current_version, arg) == TargetOf(arg) <= current_version

ClampTarget(t) == IF t > LatestVersion THEN LatestVersion ELSE t

\* migrate(target_version) once current_version has been read, on the store d
\* its connection finds, with n writing statements before a fault (the
\* statement raises or the process is killed): the return value, the store
\* and the clock after it, and whether the fault occurred
migrate_from(current_version, d, arg, now, n) ==
    IF AlreadyCurrent(current_version, arg)
    THEN [ret |-> TRUE, db |-> d, clock |-> now, fault |-> FALSE]
    ELSE LET r == MigrateLoop(_init_schema_version(ConnectFuel(d, n)),
                              current_version + 1,
                              ClampTarget(TargetOf(arg)), now)
         IN  [ret |-> ~r.conn.err, db |-> Closed(r.conn), clock |-> r.clock,
              fault |-> r.conn.killed]

\* migrate(target_version): the return value, the store and the clock after it
migrate(d, arg, now) ==
    migrate_from(get_current_version(d), d, arg, now, Unlimited)

\* variant: the ledger row deleted before the step is reverted
RevertStepDeleteFirst(c, v) == Commit(Down(v, Commit(DeleteLedger(c, v))))

\* one round of rollback's loop: down, ledger delete, commit
RevertStep(c, v) == Commit(DeleteLedger(Down(v, c), v))

\* variant: the loop written range(target + 1, current + 1), lowest step first
RECURSIVE RollbackLoopAscending(_, _, _, _)
RollbackLoopAscending(c, v, target, reverted) ==
    IF c.err \/ v <= target THEN [conn |-> c, reverted |-> reverted]
    ELSE IF (target + 1) \notin Registered
         THEN RollbackLoopAscending(c, v, target + 1, reverted)
    ELSE RollbackLoopAscending(RevertStep(c, target + 1), v, target + 1,
                               IF Down(target + 1, c).err THEN reverted
                               ELSE reverted \cup {target + 1})

\* the loop of rollback from version v down to target; reverted collects the
\* versions whose down() returned
RECURSIVE RollbackLoop(_, _, _, _)
RollbackLoop(c, v, target, reverted) ==
    IF c.err \/ v <= target THEN [conn |-> c, reverted |-> reverted]
    ELSE IF v \notin Registered THEN RollbackLoop(c, v - 1, target, reverted)
    ELSE RollbackLoop(RevertStep(c, v), v - 1, target,
                      IF Down(v, c).err THEN reverted ELSE reverted \cup {v})

\* rollback(target_version) with n writing statements before a fault: the
\* return value, the store after it, the versions whose down() returned and
\* whether the fault occurred
rollback_fuel(d, target, n) ==
    IF target >= get_current_version(d)
    THEN [ret |-> FALSE, db |-> d, reverted |-> {}, fault |-> FALSE]
    ELSE LET r == RollbackLoop(ConnectFuel(d, n), get_current_version(d),
                               target, {})
         IN  [ret |-> ~r.conn.err, db |-> Closed(r.conn),
              reverted |-> r.reverted, fault |-> r.conn.killed]

\* rollback(target_version)
rollback(d, target) == rollback_fuel(d, target, Unlimited)

status(d) ==
    [current_version |-> get_current_version(d),
     latest_version |-> LatestVersion,
     needs_migration |-> get_current_version(d) < LatestVersion,
     pending_count |-> Len(get_pending_migrations(d)),
     pending_migrations |-> get_pending_migrations(d),
     applied_migrations |-> get_applied_migrations(d)]

\* variant: status() creating the ledger table as migrate() does
status_store_init(d) == Closed(_init_schema_version(Connect(d)))

\* the store after status(): its connections execute SELECTs only
status_store(d) == Closed(Connect(d))

(***************************************************************************)
(* Bootstrap: DatabaseManager.init_database, BillingDatabase.init_database *)
(* and PhysicalPurchaseDB.init_table.  Each returns whether it raised and  *)
(* the store it leaves.                                                    *)
(***************************************************************************)
\* variant: the default products inserted without the COUNT(*) test
SeedProductsAlways(c) ==
    IF c.err THEN c
    ELSE IF ~Exists(c.db, "products") THEN Raise(c)
    ELSE InsertProduct(InsertProduct(c, "1", "gongtan", "gfex"),
                       "2", "diantan", "gfex")

SeedProducts(c) ==
    IF c.err THEN c
    ELSE IF ~Exists(c.db, "products") THEN Raise(c)
    ELSE IF c.db.rows["products"] = {}
         THEN InsertProduct(InsertProduct(c, "1", "gongtan", "gfex"),
                            "2", "diantan", "gfex")
    ELSE c

init_database(d) ==
    LET c1 == CreateTableIfNotExists(Connect(d), "trades", TradesCols)
        c2 == CreateTableIfNotExists(c1, "smm_prices", PriceCols)
        c3 == CreateTableIfNotExists(c2, "futures_prices", PriceCols)
        c4 == CreateTableIfNotExists(c3, "products", ProductsCols)
        c5 == Commit(SeedProducts(c4))
    IN  [ok |-> ~c5.err, db |-> Closed(c5)]

billing_init_database(d) ==
    LET c1 == Commit(CreateTableIfNotExists(Connect(d), "billing_records",
                                            BillingColsBootstrap))
    IN  [ok |-> ~c1.err, db |-> Closed(c1)]

\* SELECT premium FROM physical_purchases raises
NoPremium(d) ==
    \/ ~Exists(d, "physical_purchases")
    \/ "premium" \notin ColSet(d, "physical_purchases")

init_table(d) ==
    LET c1 == CreateTableIfNotExists(Connect(d), "physical_purchases_new",
                                     PhysicalNewCols)
        c2 == CreateTableIfNotExists(c1, "purchase_trade_relations", RelationCols)
        c3 == IF NoPremium(c2.db)
              THEN RenameTable(
                     DropTable(
                       InsertSelect(c2, "physical_purchases_new", PhysicalCopyCols,
                                    "physical_purchases", PhysicalCopyCols),
                       "physical_purchases"),
                     "physical_purchases_new", "physical_purchases")
              ELSE c2
        c4 == Commit(c3)
    IN  [ok |-> ~c4.err, db |-> Closed(c4)]

(***************************************************************************)
(* Stores the program starts from: the empty file, or a version-0 store    *)
(* with the legacy trades table, with or without the legacy billing table  *)
(* (billing_date instead of billing_month) and the physical_purchases      *)
(* table that has no premium column yet.                                   *)
(***************************************************************************)
TradeRow(k) ==
    [c \in Range(TradesTempCols) |->
        IF c = "id" THEN ToString(k) ELSE c \o "#" \o ToString(k)]

\* row 1 is the row {id:1, trade_id:7, billing_date:"2024-03", ...}
BillingRow(k) ==
    IF k = 1
    THEN [id |-> "1", trade_id |-> "7", billing_date |-> "2024-03",
          base_month |-> "2024-01", base_price |-> "100000",
          settlement_price |-> "95000", quantity |-> "10",
          physical_tons |-> "11", settlement_amount |-> "950000",
          discount |-> "5.0", notes |-> "note#1",
          created_at |-> "created_at#1", updated_at |-> "updated_at#1"]
    ELSE [c \in Range(LegacyBillingCols) |->
            CASE c = "id" -> ToString(k)
              [] c = "trade_id" -> ToString(k + 6)
              [] OTHER -> c \o "#" \o ToString(k)]

LegacyStore(trades, billing, physical) ==
    [cols |-> Explicit([t \in TableNames |->
                 CASE t = "trades" -> TradesTempCols
                   [] t = "billing_records" /\ billing # <<>> ->
                        LegacyBillingCols
                   [] t = "physical_purchases" -> physical
                   [] OTHER -> <<>>]),
     rows |-> Explicit([t \in DataTables |->
                 CASE t = "trades" -> trades
                   [] t = "billing_records" /\ billing # <<>> ->
                        billing[1]
                   [] OTHER -> {}]),
     ledger |-> {}]

\* billing is <<>> for no billing table, else <<rows>>; a table of n rows
\* holds the rows 1..n
LegacyStores ==
    {LegacyStore(tr, b, ph) :
        tr \in {{TradeRow(k) : k \in 1..n} : n \in 0..MaxTradeRows},
        b \in {<<>>} \cup {<<{BillingRow(k) : k \in 1..n}>> : n \in 0..MaxBillingRows},
        ph \in {<<>>, PhysicalCopyCols}}

InitStores == {EmptyStore} \cup LegacyStores

(***************************************************************************)
(* State.                                                                  *)
(*   db     the committed store (the database file)                        *)
(*   clock  the next reading of datetime.now()                             *)
(*   proc   the application process: pc its position in the start-up       *)
(*          (import database, physical_model, billing_model), migrated     *)
(*          what migrate() returned to _run_migrations, fresh whether the  *)
(*          store was empty when the process started, migrate_calls the    *)
(*          number of times the process has called migrate()               *)
(*   last   the last call: op its name, arg its argument, ret what it      *)
(*          returned (FALSE when it raised or was killed),                 *)
(*          current_version the version the call read on entry, prev the   *)
(*          call before it                                                 *)
(***************************************************************************)
VARIABLES db, clock, proc, last

vars == <<db, clock, proc, last>>

\* -1 makes rollback walk over version 0, which has no step
Targets == (0 - 1)..MaxTarget

MigrateArgs == {<<>>} \cup {<<t>> : t \in Targets}

Call(op, arg, ret, d) ==
    [op |-> op, arg |-> arg, ret |-> ret,
     current_version |-> get_current_version(d),
     prev |-> [op |-> last.op, arg |-> last.arg]]

Init ==
    /\ db \in InitStores
    /\ clock = 0
    /\ proc = [pc |-> "down", migrated |-> FALSE, fresh |-> FALSE,
               migrate_calls |-> 0]
    /\ last = [op |-> "none", arg |-> <<>>, ret |-> TRUE,
               current_version |-> get_current_version(db),
               prev |-> [op |-> "none", arg |-> <<>>]]

\* DatabaseManager.__init__, first half: self._run_migrations()
RunMigrations ==
    /\ proc.pc = "down"
    /\ LET r == migrate(db, <<>>, clock)
       IN  /\ r.clock <= MaxClock
           /\ db' = r.db
           /\ clock' = r.clock
           /\ proc' = [pc |-> "migrated", migrated |-> r.ret,
                       fresh |-> (db = EmptyStore), migrate_calls |-> 1]
           /\ last' = Call("migrate", <<>>, r.ret, db)

\* DatabaseManager.__init__, second half: self.init_database()
InitDatabase ==
    /\ proc.pc = "migrated"
    /\ LET r == init_database(db)
       IN  /\ db' = r.db
           /\ proc' = [proc EXCEPT !.pc = IF r.ok THEN "db_ready" ELSE "down"]
           /\ last' = Call("init_database", <<>>, r.ok, db)
    /\ UNCHANGED clock

\* physical_db = PhysicalPurchaseDB(): an exception ends the import
InitTable ==
    /\ proc.pc = "db_ready"
    /\ LET r == init_table(db)
       IN  /\ db' = r.db
           /\ proc' = [proc EXCEPT !.pc = IF r.ok THEN "physical_ready" ELSE "down"]
           /\ last' = Call("init_table", <<>>, r.ok, db)
    /\ UNCHANGED clock

\* billing_db = BillingDatabase(), imported by app.py after physical_model
\* and by billing_model's other importers right after database
BillingInit ==
    /\ proc.pc \in {"db_ready", "physical_ready"}
    /\ LET r == billing_init_database(db)
       IN  /\ db' = r.db
           /\ proc' = [proc EXCEPT !.pc = IF r.ok THEN "serving" ELSE "down"]
           /\ last' = Call("billing_init_database", <<>>, r.ok, db)
    /\ UNCHANGED clock

\* the process ends
Exit ==
    /\ proc.pc = "serving"
    /\ proc' = [proc EXCEPT !.pc = "down"]
    /\ last' = Call("exit", <<>>, TRUE, db)
    /\ UNCHANGED <<db, clock>>

CliIdle == proc.pc \in {"down", "serving"}

\* python migrations.py migrate [target]
CliMigrate(arg) ==
    /\ CliIdle
    /\ LET r == migrate(db, arg, clock)
       IN  /\ r.clock <= MaxClock
           /\ db' = r.db
           /\ clock' = r.clock
           /\ last' = Call("migrate", arg, r.ret, db)
    /\ UNCHANGED proc

\* python migrations.py rollback target
CliRollback(target) ==
    /\ CliIdle
    /\ LET r == rollback(db, target)
       IN  /\ db' = r.db
           /\ last' = Call("rollback", <<target>>, r.ret, db)
                          @@ [reverted |-> r.reverted]
    /\ UNCHANGED <<clock, proc>>

\* python migrations.py status
CliStatus ==
    /\ CliIdle
    /\ db' = status_store(db)
    /\ last' = Call("status", <<>>, TRUE, db)
    /\ UNCHANGED <<clock, proc>>

Next ==
    \/ RunMigrations
    \/ InitDatabase
    \/ InitTable
    \/ BillingInit
    \/ Exit
    \/ \E arg \in MigrateArgs : CliMigrate(arg)
    \/ \E target \in Targets : CliRollback(target)
    \/ CliStatus

Spec == Init /\ [][Next]_vars

(***************************************************************************)
(* A step's up or down called directly on a connection, as a test or an    *)
(* operator repairing drift does: Migration.up(conn); conn.commit().  The  *)
(* caller may be killed after any number of writing statements.            *)
(***************************************************************************)
MaxStatements == 13

StepResult(c) == [ret |-> ~c.err, db |-> Closed(c)]

step_up(d, v, n) == StepResult(Commit(Up(v, ConnectFuel(d, n))))

step_down(d, v, n) == StepResult(Commit(Down(v, ConnectFuel(d, n))))

StepUp(v) ==
    /\ LET r == step_up(db, v, Unlimited)
       IN  /\ db' = r.db
           /\ last' = Call("up", <<v>>, r.ret, db)
    /\ UNCHANGED <<clock, proc>>

StepDown(v) ==
    /\ LET r == step_down(db, v, Unlimited)
       IN  /\ db' = r.db
           /\ last' = Call("down", <<v>>, r.ret, db)
    /\ UNCHANGED <<clock, proc>>

StepUpKilled(v, n) ==
    /\ LET r == step_up(db, v, n)
       IN  /\ ~r.ret
           /\ db' = r.db
           /\ last' = Call("up_killed", <<v>>, FALSE, db)
    /\ UNCHANGED <<clock, proc>>

NextStep ==
    \/ \E v \in Registered : StepUp(v)
    \/ \E v \in Registered : StepDown(v)
    \/ \E v \in Registered, n \in 0..MaxStatements : StepUpKilled(v, n)

SpecStep == Init /\ [][NextStep]_vars

(***************************************************************************)
(* The serving application: the requests that reach the migration engine   *)
(* (GET /billing, GET /sync/export, POST /sync/import) next to the         *)
(* command line.                                                           *)
(***************************************************************************)
MaxCalls == 2

\* the SELECT ... FROM billing_records br JOIN trades t of get_all_billings raises
BillingQueryFails(d) ==
    \/ ~Exists(d, "billing_records")
    \/ ~Exists(d, "trades")
    \/ ~({"trade_id", "billing_month"} \subseteq ColSet(d, "billing_records"))
    \/ ~({"id", "trade_date", "supplier", "product_name", "contract"}
            \subseteq ColSet(d, "trades"))

\* the rows the query returns
BillingJoin(d) ==
    {r \in d.rows["billing_records"] :
        \E t \in d.rows["trades"] : t["id"] = r["trade_id"]}

\* DatabaseManager(): _run_migrations(), then init_database()
DatabaseManager(d, now) ==
    LET m == migrate(d, <<>>, now)
        i == init_database(m.db)
    IN  [ok |-> i.ok, db |-> i.db, clock |-> m.clock]

\* BillingDatabase.get_all_billings: ok is FALSE when it raises,
\* migrate_calls counts the calls of migrate() it makes
get_all_billings(d, now) ==
    IF BillingQueryFails(d)
    THEN [ok |-> FALSE, db |-> d, clock |-> now, migrate_calls |-> 0]
    ELSE LET m == DatabaseManager(d, now)
         IN  [ok |-> /\ m.ok
                     /\ \/ BillingJoin(d) = {}
                        \/ Range(BillingColsMigration) \subseteq
                               ColSet(d, "billing_records"),
              db |-> m.db, clock |-> m.clock, migrate_calls |-> 1]

\* DataExporter.export_full: the JSON document written
export_full(d) ==
    [schema_version |-> status(d).current_version, tables |-> d]

\* DataImporter._clear_database: DELETE FROM every table of sqlite_master
_clear_database(d) ==
    LET c == Commit(Dml(Connect(d),
                        [d EXCEPT !.rows = EmptyStore.rows,
                                  !.ledger = {}]))
    IN  Closed(c)

\* the INSERT OR REPLACE of a row of table t of the document raises
InsertFails(d, f, t) ==
    \/ ~Exists(d, t)
    \/ ~(Range(f.cols[t]) \subseteq ColSet(d, t))

\* rows of table t after INSERT OR REPLACE of the document's rows
ReplaceInto(d, f, t) ==
    IF InsertFails(d, f, t) THEN d.rows[t]
    ELSE LET new == {[k \in ColSet(d, t) |->
                         IF k \in DOMAIN r THEN r[k] ELSE NULL]
                     : r \in f.rows[t]}
         IN  {r \in d.rows[t] :
                 ~\E k \in UniqueCols(t), n \in new : n[k] = r[k]} \cup new

\* the same for schema_version, whose primary key is version
ReplaceIntoLedger(d, f) ==
    IF ~Exists(d, "schema_version") THEN d.ledger
    ELSE {r \in d.ledger : r.version \notin Versions(f)} \cup f.ledger

\* the insert loop of import_full and its commit
InsertTables(d, f) ==
    LET c == Commit(Dml(Connect(d),
                        [d EXCEPT !.rows = Explicit([t \in DataTables |->
                                               ReplaceInto(d, f, t)]),
                                  !.ledger = ReplaceIntoLedger(d, f)]))
    IN  Closed(c)

\* DataImporter.import_full(input_path, merge)
import_full(d, file, merge, now) ==
    LET loaded == InsertTables(IF merge THEN d ELSE _clear_database(d),
                               file.tables)
    IN  IF file.schema_version < status(d).latest_version
        THEN LET m == migrate(loaded, <<>>, now)
             IN  [ret |-> m.ret, db |-> m.db, clock |-> m.clock,
                  migrate_calls |-> 1]
        ELSE [ret |-> TRUE, db |-> loaded, clock |-> now, migrate_calls |-> 0]

\* DataImporter.import_database(input_path): the file copied over the store;
\* schema_version is read from the _meta.json next to it, 0 without one
import_database(d, file, schema_version, now) ==
    IF schema_version < status(file).latest_version
    THEN LET m == migrate(file, <<>>, now)
         IN  [ret |-> m.ret, db |-> m.db, clock |-> m.clock,
              migrate_calls |-> 1]
    ELSE [ret |-> TRUE, db |-> file, clock |-> now, migrate_calls |-> 0]

\* the files a user uploads: backups of a store of an earlier installation
BackupStores ==
    {EmptyStore,
     LegacyStore({TradeRow(1)}, <<{BillingRow(1)}>>, PhysicalCopyCols),
     migrate(LegacyStore({}, <<>>, <<>>), <<>>, 0).db}

\* what a request leaves: the store, the clock and the calls of migrate()
Served(op, arg, r, ok) ==
    /\ r.clock <= MaxClock
    /\ proc.migrate_calls + r.migrate_calls <= MaxCalls
    /\ db' = r.db
    /\ clock' = r.clock
    /\ proc' = [proc EXCEPT !.migrate_calls = @ + r.migrate_calls]
    /\ last' = Call(op, arg, ok, db)

\* GET /billing
BillingPage ==
    /\ proc.pc = "serving"
    /\ LET r == get_all_billings(db, clock)
       IN  Served("get_all_billings", <<>>, r, r.ok)

\* POST /sync/import of a .db file: the upload is a temporary file
\* without _meta.json
SyncImportDatabase(file) ==
    /\ proc.pc = "serving"
    /\ LET r == import_database(db, file, 0, clock)
       IN  Served("import_database", <<>>, r, r.ret)

\* POST /sync/import of a .json file
SyncImportFull(file, merge) ==
    /\ proc.pc = "serving"
    /\ LET r == import_full(db, export_full(file), merge, clock)
       IN  Served("import_full", <<merge>>, r, r.ret)

\* GET /sync/export: status(), then the file copied or dumped
SyncExport ==
    /\ proc.pc = "serving"
    /\ db' = status_store(db)
    /\ last' = Call("export", <<>>, TRUE, db)
    /\ UNCHANGED <<clock, proc>>

NextServe ==
    \/ RunMigrations
    \/ InitDatabase
    \/ InitTable
    \/ BillingInit
    \/ Exit
    \/ BillingPage
    \/ \E file \in BackupStores : SyncImportDatabase(file)
    \/ \E file \in BackupStores, merge \in BOOLEAN : SyncImportFull(file, merge)
    \/ SyncExport
    \/ CliStatus

SpecServe == Init /\ [][NextServe]_vars

(***************************************************************************)
(* The command line under faults: a call of migrate or rollback whose      *)
(* (n+1)-st writing statement raises (disk full, database is locked) or    *)
(* during which the process is killed, and a migrate that races with the   *)
(* migrate of another process.  In both cases the connection is dropped    *)
(* with its transaction open.                                              *)
(***************************************************************************)
\* the clock readings a behaviour with faults may use: a round stopped by a
\* fault has read the clock too
MaxFaultClock == 3

\* the targets that name a version the registry reaches
StepTargets == 0..LatestVersion

StepArgs == {<<>>} \cup {<<t>> : t \in StepTargets}

\* the targets below the latest version: a rollback to them has a step to
\* revert, and a migrate to them differs from the default migrate
FaultTargets == 0..(LatestVersion - 1)

FaultArgs == {<<>>} \cup {<<t>> : t \in FaultTargets}

\* the record of a call that keeps no trace of the call before it
CallAlone(op, arg, ret, current_version) ==
    [op |-> op, arg |-> arg, ret |-> ret,
     current_version |-> current_version,
     prev |-> [op |-> "none", arg |-> <<>>]]

\* the call before, kept when it is a migrate that failed or was stopped
FailedMigrateBefore ==
    IF last.op \in {"migrate", "migrate_fault"} /\ ~last.ret
    THEN [op |-> last.op, arg |-> last.arg]
    ELSE [op |-> "none", arg |-> <<>>]

\* migrate [target] running to its end
Migrate(arg) ==
    /\ LET r == migrate(db, arg, clock)
       IN  /\ r.clock <= MaxFaultClock
           /\ db' = r.db
           /\ clock' = r.clock
           /\ last' = [CallAlone("migrate", arg, r.ret,
                                 get_current_version(db))
                          EXCEPT !.prev = FailedMigrateBefore]
    /\ UNCHANGED proc

\* rollback target running to its end
Rollback(target) ==
    /\ LET r == rollback(db, target)
       IN  /\ db' = r.db
           /\ last' = CallAlone("rollback", <<target>>, r.ret,
                                get_current_version(db))
                          @@ [reverted |-> r.reverted]
    /\ UNCHANGED <<clock, proc>>

\* migrate [target] stopped by a fault
MigrateFault(arg, n) ==
    /\ LET r == migrate_from(get_current_version(db), db, arg, clock, n)
       IN  /\ r.fault
           /\ r.clock <= MaxFaultClock
           /\ db' = r.db
           /\ clock' = r.clock
           /\ last' = CallAlone("migrate_fault", arg, FALSE,
                                get_current_version(db))
    /\ UNCHANGED proc

\* rollback target stopped by a fault
RollbackFault(target, n) ==
    /\ LET r == rollback_fuel(db, target, n)
       IN  /\ r.fault
           /\ db' = r.db
           /\ last' = CallAlone("rollback_fault", <<target>>, FALSE,
                                get_current_version(db))
                          @@ [reverted |-> r.reverted]
    /\ UNCHANGED <<clock, proc>>

\* migrate [target] of a second process that read the current version when
\* the migrate before it did, and opens its connection after that one ended
MigrateRacing(arg) ==
    /\ last.op = "migrate"
    /\ LET r == migrate_from(last.current_version, db, arg, clock, Unlimited)
       IN  /\ r.clock <= MaxFaultClock
           /\ db' = r.db
           /\ clock' = r.clock
           /\ last' = CallAlone("migrate_race", arg, r.ret,
                                last.current_version)
    /\ UNCHANGED proc

NextCrash ==
    \/ \E arg \in StepArgs : Migrate(arg)
    \/ \E target \in StepTargets : Rollback(target)
    \/ \E arg \in FaultArgs, n \in 0..MaxStatements : MigrateFault(arg, n)
    \/ \E target \in FaultTargets, n \in 0..MaxStatements : RollbackFault(target, n)
    \/ \E arg \in StepArgs : MigrateRacing(arg)

\* the stores of Init without the physical_purchases table, which neither
\* migrate nor rollback reads
InitCrash == Init /\ ~Exists(db, "physical_purchases")

SpecCrash == InitCrash /\ [][NextCrash]_vars

(***************************************************************************)
(* A manager whose migrations dict holds only some of the steps: the dict  *)
(* is a plain attribute of MigrationManager that _register_migrations      *)
(* fills, and the loops of migrate and rollback test each version of       *)
(* their range against it.                                                 *)
(***************************************************************************)
Registries == SUBSET Registered

\* max(self.migrations.keys()) if self.migrations else 0
LatestOf(migrations) == IF migrations = {} THEN 0 ELSE Max(migrations)

\* variant: self.migrations[version] read without the membership test, the
\* KeyError ending the call
RECURSIVE MigrateLoopInStrict(_, _, _, _, _)
MigrateLoopInStrict(migrations, c, v, target, now) ==
    IF c.err \/ v > target THEN [conn |-> c, clock |-> now]
    ELSE IF v \notin migrations
         THEN MigrateLoopInStrict(migrations, Raise(c), v + 1, target, now)
    ELSE MigrateLoopInStrict(migrations, ApplyStep(c, v, now), v + 1, target,
                             now + 1)

\* the loop of migrate over the dict migrations
RECURSIVE MigrateLoopIn(_, _, _, _, _)
MigrateLoopIn(migrations, c, v, target, now) ==
    IF c.err \/ v > target THEN [conn |-> c, clock |-> now]
    ELSE IF v \notin migrations
         THEN MigrateLoopIn(migrations, c, v + 1, target, now)
    ELSE MigrateLoopIn(migrations, ApplyStep(c, v, now), v + 1, target, now + 1)

\* migrate(target_version) of a manager whose dict is migrations
migrate_in(migrations, d, arg, now) ==
    LET current_version == get_current_version(d)
        latest_version == LatestOf(migrations)
        target_version == IF arg = <<>> THEN latest_version ELSE arg[1]
    IN  IF target_version <= current_version
        THEN [ret |-> TRUE, db |-> d, clock |-> now]
        ELSE LET r == MigrateLoopIn(migrations,
                                    _init_schema_version(Connect(d)),
                                    current_version + 1,
                                    IF target_version > latest_version
                                    THEN latest_version ELSE target_version,
                                    now)
             IN  [ret |-> ~r.conn.err, db |-> Closed(r.conn), clock |-> r.clock]

\* the loop of rollback over the dict migrations
RECURSIVE RollbackLoopIn(_, _, _, _)
RollbackLoopIn(migrations, c, v, target) ==
    IF c.err \/ v <= target THEN c
    ELSE IF v \notin migrations THEN RollbackLoopIn(migrations, c, v - 1, target)
    ELSE RollbackLoopIn(migrations, RevertStep(c, v), v - 1, target)

\* rollback(target_version) of a manager whose dict is migrations
rollback_in(migrations, d, target) ==
    IF target >= get_current_version(d)
    THEN [ret |-> FALSE, db |-> d]
    ELSE LET c == RollbackLoopIn(migrations, Connect(d),
                                 get_current_version(d), target)
         IN  [ret |-> ~c.err, db |-> Closed(c)]

MigrateWith(migrations, arg) ==
    /\ LET r == migrate_in(migrations, db, arg, clock)
       IN  /\ r.clock <= MaxClock
           /\ db' = r.db
           /\ clock' = r.clock
           /\ last' = CallAlone("migrate", arg, r.ret, get_current_version(db))
                          @@ [migrations |-> migrations]
    /\ UNCHANGED proc

RollbackWith(migrations, target) ==
    /\ LET r == rollback_in(migrations, db, target)
       IN  /\ db' = r.db
           /\ last' = CallAlone("rollback", <<target>>, r.ret,
                                get_current_version(db))
                          @@ [migrations |-> migrations]
    /\ UNCHANGED <<clock, proc>>

NextGap ==
    \/ \E migrations \in Registries, arg \in StepArgs :
           MigrateWith(migrations, arg)
    \/ \E migrations \in Registries, target \in Targets :
           RollbackWith(migrations, target)

SpecGap == InitCrash /\ [][NextGap]_vars

(***************************************************************************)
(* Start-up on a store that has been in use: the physical_purchases table  *)
(* of an earlier installation holds purchases, and the products table may  *)
(* exist, empty or with a product the user entered.  Between two starts    *)
(* the operator may roll the store back from the command line.             *)
(***************************************************************************)
MaxPhysicalRows == 1

PhysicalRow(k) ==
    [c \in Range(PhysicalCopyCols) |->
        IF c = "id" THEN ToString(k) ELSE c \o "#" \o ToString(k)]

\* a product entered through the application, not one of the defaults
ProductRow ==
    [id |-> "3", name |-> "tansuanli", exchange |-> "gfex",
     created_at |-> "now", updated_at |-> "now"]

\* store d with the rows physical in physical_purchases (when d has the
\* table) and the products table products: <<>> for none, else <<rows>>
UsedStore(d, physical, products) ==
    [d EXCEPT !.rows["physical_purchases"] =
                  IF Exists(d, "physical_purchases") THEN physical ELSE {},
              !.cols["products"] =
                  IF products = <<>> THEN <<>> ELSE ProductsCols,
              !.rows["products"] =
                  IF products = <<>> THEN {} ELSE products[1]]

\* the store the first start on an empty file leaves when billing_model is
\* imported after database: migrate() has failed, the bootstrap has created
\* trades and billing_records
FirstStartStore ==
    billing_init_database(
        init_database(migrate(EmptyStore, <<>>, 0).db).db).db

UsedStores ==
    {UsedStore(d, ph, pr) :
        d \in InitStores \cup {FirstStartStore},
        ph \in {{PhysicalRow(k) : k \in 1..n} : n \in 0..MaxPhysicalRows},
        pr \in {<<>>, <<{}>>, <<{ProductRow}>>}}

InitBoot ==
    /\ db \in UsedStores
    /\ clock = 0
    /\ proc = [pc |-> "down", migrated |-> FALSE, fresh |-> FALSE,
               migrate_calls |-> 0]
    /\ last = [op |-> "none", arg |-> <<>>, ret |-> TRUE,
               current_version |-> get_current_version(db),
               prev |-> [op |-> "none", arg |-> <<>>]]

NextBoot ==
    \/ RunMigrations
    \/ InitDatabase
    \/ InitTable
    \/ BillingInit
    \/ Exit
    \/ \E target \in StepTargets : CliRollback(target)

SpecBoot == InitBoot /\ [][NextBoot]_vars

(***************************************************************************)
(* Two processes in migrate() on one store, statement by statement.  In    *)
(* this specification proc maps each process to its position: pc, the      *)
(* current_version it read, the version v and the statement k of the step  *)
(* it is in, the columns its last PRAGMA table_info or sqlite_master query *)
(* returned, whether its connection has a transaction open and the store   *)
(* that transaction sees (view), what migrate returned (ret), whether the  *)
(* other process had committed nothing when it read the columns (early),   *)
(* and whether its commit() has returned (committed).  The store lets one  *)
(* connection write at a time: while a transaction is open the other       *)
(* connection reads the committed store, and a statement of it that        *)
(* writes waits or raises "database is locked".                            *)
(***************************************************************************)
Procs == {"A", "B"}

Other(p) == IF p = "A" THEN "B" ELSE "A"

\* the stores with a trades table, at version 0 or brought to version 1 by
\* migrate(1)
RaceStores ==
    LET S == {d \in LegacyStores : ~Exists(d, "physical_purchases")}
    IN  S \cup {migrate(d, <<1>>, 0).db : d \in S}

\* the statements of one round of migrate's loop, reads included
Program(v) ==
    IF v = 1
    THEN <<"table_info", "add", "add", "add", "add", "add", "ledger", "commit">>
    ELSE <<"table_info", "rename", "create", "old_exists", "copy", "drop",
           "ledger", "commit">>

\* the connection of process p before its next statement
ConnOf(p) ==
    [db |-> IF proc[p].inTx THEN proc[p].view ELSE db, saved |-> db,
     inTx |-> proc[p].inTx, err |-> FALSE, fuel |-> Unlimited,
     killed |-> FALSE]

\* the connection of process p after its next statement
Statement(p) ==
    LET me == proc[p]
        c == ConnOf(p)
        s == Program(me.v)[me.k]
    IN  CASE me.pc = "init" -> _init_schema_version(c)
          [] s \in {"table_info", "old_exists"} -> c
          [] s = "add" -> AddIfMissing(c, me.columns, SupplierCols[me.k - 1])
          [] s = "rename" ->
                IF "billing_date" \in me.columns /\ "billing_month" \notin me.columns
                THEN RenameTable(c, "billing_records", "billing_records_old")
                ELSE c
          [] s = "create" ->
                CreateTableIfNotExists(c, "billing_records", BillingColsMigration)
          [] s = "copy" ->
                IF me.columns # {}
                THEN InsertSelect(c, "billing_records", BillingCopyInto,
                                  "billing_records_old", BillingCopyFrom)
                ELSE c
          [] s = "drop" ->
                IF me.columns # {} THEN DropTable(c, "billing_records_old") ELSE c
          [] s = "ledger" -> InsertLedger(c, me.v, Description(me.v), clock)
          [] OTHER -> Commit(c)

\* what the read of process p at its statement returns
ReadOf(p) ==
    LET me == proc[p]
        s == Program(me.v)[me.k]
    IN  IF me.pc = "init" THEN me.columns
        ELSE IF s = "table_info"
             THEN ColSet(ConnOf(p).db,
                         IF me.v = 1 THEN "trades" ELSE "billing_records")
        ELSE IF s = "old_exists" THEN ColSet(ConnOf(p).db, "billing_records_old")
        ELSE me.columns

\* process p after its statement returned with connection c; every version
\* of the range has a registered step
Advance(p, c) ==
    LET me == [proc[p] EXCEPT
                  !.columns = ReadOf(p),
                  !.inTx = c.inTx,
                  !.view = IF c.inTx THEN c.db ELSE EmptyStore,
                  !.committed = @ \/ (proc[p].inTx /\ ~c.inTx),
                  !.early = IF /\ proc[p].pc = "run"
                               /\ proc[p].v = proc[p].current_version + 1
                               /\ proc[p].k = 1
                            THEN ~proc[Other(p)].committed ELSE @]
    IN  IF me.pc = "init"
        THEN [me EXCEPT !.pc = "run", !.v = me.current_version + 1, !.k = 1]
        ELSE IF me.k < Len(Program(me.v)) THEN [me EXCEPT !.k = @ + 1]
        ELSE IF me.v + 1 > LatestVersion
             THEN [me EXCEPT !.pc = "done", !.ret = TRUE, !.columns = {}]
        ELSE [me EXCEPT !.v = @ + 1, !.k = 1]

\* process p after an exception: the connection is dropped with its
\* transaction, migrate returns False
Failed(p) ==
    [proc[p] EXCEPT !.pc = "failed", !.ret = FALSE, !.inTx = FALSE,
                    !.view = EmptyStore, !.columns = {}]

InitRace ==
    /\ db \in RaceStores
    /\ clock = 1
    /\ proc = Explicit([p \in Procs |->
                 [pc |-> "start", current_version |-> 0, v |-> 0, k |-> 0,
                  columns |-> {}, inTx |-> FALSE, view |-> EmptyStore,
                  ret |-> FALSE, early |-> FALSE, committed |-> FALSE]])
    /\ last = [op |-> "none", arg |-> <<>>, ret |-> TRUE,
               current_version |-> get_current_version(db),
               prev |-> [op |-> "none", arg |-> <<>>]]

\* current_version = self.get_current_version() and the test against target
RaceStart(p) ==
    /\ proc[p].pc = "start"
    /\ proc' = [proc EXCEPT ![p] =
                  IF AlreadyCurrent(get_current_version(db), <<>>)
                  THEN [@ EXCEPT !.pc = "done", !.ret = TRUE,
                                 !.current_version = get_current_version(db)]
                  ELSE [@ EXCEPT !.pc = "init",
                                 !.current_version = get_current_version(db)]]
    /\ UNCHANGED <<db, clock, last>>

\* the next statement of process p; one that writes is not executed while
\* the other process has a transaction open
RaceStep(p) ==
    /\ proc[p].pc \in {"init", "run"}
    /\ LET c == Statement(p)
       IN  /\ proc[Other(p)].inTx => c = ConnOf(p)
           /\ db' = c.saved
           /\ proc' = [proc EXCEPT ![p] =
                         IF c.err THEN Failed(p) ELSE Advance(p, c)]
           /\ clock' = IF /\ proc[p].pc = "run"
                          /\ Program(proc[p].v)[proc[p].k] = "ledger"
                       THEN clock + 1 ELSE clock
    /\ UNCHANGED last

\* a statement that writes raises "database is locked": the other process
\* kept its transaction open longer than the busy timeout
RaceLocked(p) ==
    /\ proc[p].pc \in {"init", "run"}
    /\ proc[Other(p)].inTx
    /\ Statement(p) # ConnOf(p)
    /\ proc' = [proc EXCEPT ![p] = Failed(p)]
    /\ UNCHANGED <<db, clock, last>>

NextRace ==
    \/ \E p \in Procs : RaceStart(p)
    \/ \E p \in Procs : RaceStep(p)
    \/ \E p \in Procs : RaceLocked(p)

SpecRace == InitRace /\ [][NextRace]_vars

(***************************************************************************)
(* Properties.                                                             *)
(***************************************************************************)
BillingRows(d) == d.rows["billing_records"]

Occurrences(s, x) == Cardinality({i \in 1..Len(s) : s[i] = x})

\* C1: starting from the empty store, migrate() with the default target
\* returns success, after which the current version is 2, the ledger holds
\* exactly the rows of versions 1 and 2 with the applied_at of version 1
\* earlier than that of version 2, and status() reports no migration needed.
C1_EmptyStoreMigrates ==
    [][(db = EmptyStore /\ last'.op = "migrate" /\ last'.arg = <<>>) =>
          /\ last'.ret
          /\ get_current_version(db') = 2
          /\ Versions(db') = {1, 2}
          /\ Cardinality(db'.ledger) = 2
          /\ \A r1, r2 \in db'.ledger :
                r1.version < r2.version => r1.applied_at < r2.applied_at
          /\ ~status(db').needs_migration]_vars

\* the process started on the empty store and has run migrate() and the
\* bootstrap of database.py and billing_model.py
FreshBootstrapped ==
    /\ proc.fresh
    /\ last.op = "billing_init_database"
    /\ last.ret

\* C2: a fresh empty store taken through migrate() and the bootstrap has, for
\* trades and billing_records, the same columns as a store that held the
\* version-0 legacy tables and was upgraded by migrate().
C2_FreshEqualsUpgraded ==
    FreshBootstrapped =>
        \A d \in LegacyStores : \A t \in {"trades", "billing_records"} :
            Schema(db)[t] = Schema(migrate(d, <<>>, 0).db)[t]

\* C3: the bootstrap runs only after migrate() has returned success: a process
\* whose migrate() reported failure never gets past _run_migrations.
C3_BootstrapOnlyAfterSuccess ==
    proc.pc \in {"db_ready", "physical_ready", "serving"} => proc.migrated

\* C4: migrate(target) with target <= current version returns success and
\* changes neither the ledger nor the schema; a second migrate() right after a
\* successful migrate() applies no step and writes no ledger row.
C4_NoOpWhenCurrent ==
    [][/\ (last'.op = "migrate" /\ TargetOf(last'.arg) <= get_current_version(db))
            => (last'.ret /\ db' = db)
       /\ (/\ last.op = "migrate" /\ last.arg = <<>> /\ last.ret
           /\ last'.op = "migrate" /\ last'.arg = <<>>)
            => (last'.ret /\ db' = db)]_vars

\* a migrate() that followed a successful migrate() and found the store current
C4_Witness ==
    /\ last.op = "migrate" /\ last.arg = <<>> /\ last.ret
    /\ last.prev = [op |-> "migrate", arg |-> <<>>]
    /\ last.current_version = LatestVersion
    /\ Versions(db) = Registered

\* C5: after a migrate() with the default target returned success, the current
\* version is the highest registered version reachable from 0 without a gap in
\* the registered versions.
C5_ReachesLatest ==
    (last.op = "migrate" /\ last.arg = <<>> /\ last.ret) =>
        get_current_version(db) =
            Max({n \in 0..LatestVersion : 1..n \subseteq Registered})

\* a successful migrate() that started at version 0 and applied both steps
C5_Witness ==
    /\ last.op = "migrate" /\ last.arg = <<>> /\ last.ret
    /\ last.current_version = 0
    /\ Versions(db) = {1, 2}

\* C6: in every reachable state with current version n, the pending list of
\* status() holds exactly the registered versions above n, in ascending
\* order.
C6_PendingExact ==
    LET st == status(db)
        p == st.pending_migrations
    IN  /\ Range(p) = {v \in Registered : v > st.current_version}
        /\ \A i \in 1..(Len(p) - 1) : p[i] < p[i + 1]
        /\ st.pending_count = Len(p)

\* status() called at version 1, where exactly step 2 is pending
C6_Witness ==
    /\ last.op = "status"
    /\ status(db).current_version = 1
    /\ status(db).pending_migrations = <<2>>

\* C7: step 1's up applied twice in a row to a store with a trades table does
\* not raise, the second application changes nothing, and trades then has each
\* of the five supplier columns exactly once.
C7_UpTwice ==
    [][(/\ last.op = "up" /\ last.arg = <<1>> /\ Exists(db, "trades")
        /\ last'.op = "up" /\ last'.arg = <<1>>)
         => /\ last.ret
            /\ last'.ret
            /\ db' = db
            /\ \A col \in Range(SupplierCols) :
                  Occurrences(db'.cols["trades"], col) = 1]_vars

\* the second of two up calls of step 1 on a store with a trades table
C7_Witness ==
    /\ last.op = "up" /\ last.arg = <<1>> /\ last.ret
    /\ last.prev = [op |-> "up", arg |-> <<1>>]
    /\ Range(SupplierCols) \subseteq ColSet(db, "trades")

\* what step 2's up must leave of a legacy billing table
LegacyCarried(before, after) ==
    /\ after.cols["billing_records"] = BillingColsMigration
    /\ ~Exists(after, "billing_records_old")
    /\ Cardinality(BillingRows(after)) = Cardinality(BillingRows(before))
    /\ \A r \in BillingRows(before) : \E r2 \in BillingRows(after) :
          r2.id = r.id /\ r2.billing_month = r.billing_date

BillingKeptCols ==
    {"id", "trade_id", "base_month", "base_price", "settlement_price",
     "quantity", "physical_tons", "settlement_amount", "discount"}

\* C9: for a store at version 1 whose legacy-shaped billing table holds one
\* row, migrate(2) succeeds and the new billing table holds exactly one row,
\* with billing_month equal to the legacy billing_date and every other field
\* equal to the legacy row's.
C9_OneRowMigrated ==
    [][(/\ get_current_version(db) = 1
        /\ LegacyBilling(db)
        /\ Cardinality(BillingRows(db)) = 1
        /\ last'.op = "migrate" /\ last'.arg = <<2>>)
         => /\ last'.ret
            /\ get_current_version(db') = 2
            /\ "billing_month" \in ColSet(db', "billing_records")
            /\ Cardinality(BillingRows(db')) = 1
            /\ \A r \in BillingRows(db), r2 \in BillingRows(db') :
                  /\ r2.billing_month = r.billing_date
                  /\ \A k \in BillingKeptCols : r2[k] = r[k]]_vars

\* migrate(2) at version 1 has carried the row {id:1, trade_id:7, ...}
C9_Witness ==
    /\ last.op = "migrate" /\ last.arg = <<2>> /\ last.ret
    /\ last.current_version = 1
    /\ Cardinality(BillingRows(db)) = 1
    /\ \E r \in BillingRows(db) :
          /\ r.billing_month = "2024-03"
          /\ r.id = "1" /\ r.trade_id = "7" /\ r.base_month = "2024-01"
          /\ r.discount = "5.0"

\* C10: for a store at version 2, rollback(1) returns success, after which the
\* current version is 1, the ledger has the row of version 1 and not that of
\* version 2, and billing_records no longer exists.
C10_RollbackToOne ==
    [][(/\ get_current_version(db) = 2
        /\ last'.op = "rollback" /\ last'.arg = <<1>>)
         => /\ last'.ret
            /\ get_current_version(db') = 1
            /\ Versions(db') = {1}
            /\ ~Exists(db', "billing_records")]_vars

\* rollback(1) returned success on a store that migrate had brought to version 2
C10_Witness ==
    /\ last.op = "rollback" /\ last.arg = <<1>> /\ last.ret
    /\ last.current_version = 2
    /\ last.prev.op = "migrate"
    /\ get_current_version(db) = 1

\* C11: a process calls migrate() once, when it starts: no request it
\* serves afterwards (the billing page, a data import) calls migrate()
\* again.
C11_MigrateOncePerProcess == proc.migrate_calls <= 1

\* C12: status() is a pure read: in every reachable state, also when the
\* store has no ledger table, the call leaves the ledger and the schema as
\* they were.
C12_StatusIsPureRead ==
    [][last'.op = "status" =>
          /\ db'.ledger = db.ledger
          /\ Schema(db') = Schema(db)
          /\ db' = db]_vars

C12_Witness ==
    /\ last.op = "status"
    /\ ~Exists(db, "schema_version")
    /\ Exists(db, "trades")

\* C14: ledger rows are inserted by migrate and removed by rollback only:
\* a step that is neither (bootstrap, status, export, an import of a JSON
\* document or of a database file, a query) leaves the ledger rows as they
\* were.
C14_LedgerWrittenByEngineOnly ==
    [][last'.op \notin {"migrate", "rollback"} => db'.ledger = db.ledger]_vars

MigrateOps == {"migrate", "migrate_fault"}

RollbackOps == {"rollback", "rollback_fault"}

\* the schema changes of step v are undone in store d
RevertInPlace(d, v) ==
    IF v = 1 THEN Range(SupplierCols) \cap ColSet(d, "trades") = {}
    ELSE ~Exists(d, "billing_records")

\* the tables step v changes have in store e the schema they have in d
Untouched(d, e, v) ==
    IF v = 1 THEN e.cols["trades"] = d.cols["trades"]
    ELSE /\ e.cols["billing_records"] = d.cols["billing_records"]
         /\ e.cols["billing_records_old"] = d.cols["billing_records_old"]

\* C13: rollback(target) reverts the steps from the current version down to
\* target+1 in descending order and deletes the ledger row of a step only
\* after the down() of that step returned; a successful call leaves the
\* versions up to target, and a call stopped by a down() that did not
\* return reports failure and leaves exactly the versions whose down() had
\* not returned.
C13_RollbackDescending ==
    [][(last'.op \in RollbackOps /\ last'.arg[1] < last'.current_version) =>
          LET removed == Versions(db) \ Versions(db')
              above == {v \in Versions(db') : v > last'.arg[1]}
          IN  /\ db'.ledger \subseteq db.ledger
              /\ \A v \in removed :
                     /\ v > last'.arg[1]
                     /\ \A u \in Versions(db) : u > v => u \in removed
              /\ removed \subseteq last'.reverted
              /\ \A v \in removed : RevertInPlace(db', v)
              /\ last'.ret => above = {}
              /\ (~last'.ret /\ above # {} /\ Max(above) \notin last'.reverted)
                    => Versions(db') = Versions(db) \ last'.reverted]_vars

\* rollback(0) from version 2 reverted step 2 and stopped in the down() of step 1
C13_Witness ==
    /\ last.op \in RollbackOps
    /\ ~last.ret
    /\ last.arg = <<0>>
    /\ last.current_version = 2
    /\ last.reverted = {2}
    /\ Versions(db) = {1}

\* C15: when migrate fails or is killed at step v (in the up() of v, in its
\* ledger insert or in its commit), the call reports failure, leaves no
\* ledger row for v, has added exactly the rows of the steps between the
\* version it started from and v, and has not touched what the steps above v
\* change.
C15_FailureStopsMigrate ==
    [][(last'.op \in MigrateOps /\ ~last'.ret) =>
          /\ db.ledger \subseteq db'.ledger
          /\ \E v \in Registered :
                /\ v > last'.current_version
                /\ v \notin Versions(db')
                /\ Versions(db') \ Versions(db) =
                       {u \in Registered : last'.current_version < u /\ u < v}
                /\ \A u \in Registered : u > v => Untouched(db, db', u)]_vars

\* migrate from version 0 committed step 1 and was stopped in step 2
C15_Witness ==
    /\ last.op = "migrate_fault"
    /\ last.current_version = 0
    /\ Versions(db) = {1}
    /\ Exists(db, "billing_records_old")

\* C16: after a call of migrate, also one that failed or was killed in the
\* middle of a step, a step without its ledger row has none of its schema
\* changes in the store: the tables it changes have the schema they had
\* before the call.
C16_StepAllOrNothing ==
    [][last'.op \in MigrateOps =>
          \A v \in Registered :
              v \notin Versions(db') => Untouched(db, db', v)]_vars

\* C17: in every reachable state whose ledger holds the row of version 2,
\* billing_records exists and billing_records_old does not.
C17_AppliedMeansCanonical ==
    2 \in Versions(db) =>
        /\ Exists(db, "billing_records")
        /\ ~Exists(db, "billing_records_old")

\* C18: in a state left by a migrate that failed or was killed, on a store
\* with a trades table, migrate() run to its end returns success and the
\* current version is the latest registered version.
C18_RerunRecovers ==
    [][(/\ last.op \in MigrateOps
        /\ ~last.ret
        /\ Exists(db, "trades")
        /\ last'.op = "migrate"
        /\ last'.arg = <<>>) =>
          /\ last'.ret
          /\ get_current_version(db') = LatestVersion]_vars

\* migrate() succeeded at version 1 and carried the legacy billing rows,
\* right after a migrate that a fault had stopped; a round of step 2 begun
\* and not committed lies between the two ledger rows
C18_Witness ==
    /\ last.op = "migrate"
    /\ last.arg = <<>>
    /\ last.ret
    /\ last.prev.op = "migrate_fault"
    /\ last.current_version = 1
    /\ BillingRows(db) # {}
    /\ get_current_version(db) = LatestVersion
    /\ \E r1 \in db.ledger, r2 \in db.ledger :
          /\ r1.version = 1
          /\ r2.version = 2
          /\ r2.applied_at > r1.applied_at + 1

\* C19: the current version does not decrease across a call of migrate and
\* does not increase across a call of rollback, whether the call succeeds,
\* stops part-way or does nothing.
C19_VersionMonotone ==
    [][/\ last'.op \in MigrateOps \cup {"migrate_race"} =>
            get_current_version(db') >= get_current_version(db)
       /\ last'.op \in RollbackOps =>
            get_current_version(db') <= get_current_version(db)]_vars

\* a migrate stopped part-way after it raised the version, and a rollback
\* stopped part-way after it lowered it
C19_Witness ==
    \/ /\ last.op = "migrate_fault"
       /\ get_current_version(db) > last.current_version
    \/ /\ last.op = "rollback_fault"
       /\ get_current_version(db) < last.current_version
       /\ get_current_version(db) > last.arg[1]

\* C20: the ledger never holds two rows of one version, and a migrate that
\* comes to record a version the ledger already holds (it read the current
\* version before another migrate recorded it) is refused by the store and
\* returns failure, the ledger left as it was.
C20_NoDuplicateVersion ==
    [][/\ Cardinality(db'.ledger) = Cardinality(Versions(db'))
       /\ (/\ last'.op = "migrate_race"
           /\ TargetOf(last'.arg) > last'.current_version
           /\ (last'.current_version + 1) \in Versions(db))
            => (~last'.ret /\ db'.ledger = db.ledger)]_vars

\* the racing migrate came to record version 1 a second time
C20_Witness ==
    /\ last.op = "migrate_race"
    /\ ~last.ret
    /\ last.current_version = 0
    /\ 1 \in Versions(db)
    /\ Exists(db, "trades")

\* C21: migrate(target) with target above the highest registered version
\* returns success, applies exactly the pending steps, ends at the highest
\* registered version and writes no ledger row above it.
C21_ClampAboveLatest ==
    [][(/\ last'.op = "migrate"
        /\ last'.arg # <<>>
        /\ last'.arg[1] > LatestVersion) =>
          /\ last'.ret
          /\ get_current_version(db') = LatestVersion
          /\ Versions(db') \ Versions(db) =
                 {v \in Registered : v > get_current_version(db)}
          /\ \A v \in Versions(db') : v <= LatestVersion]_vars

\* the versions the loop of a call walks over: (current, target] for
\* migrate, the target clamped to the highest registered version, and
\* (target, current] for rollback
ProcessedRange(call) ==
    IF call.op = "migrate"
    THEN LET latest == LatestOf(call.migrations)
             t == IF call.arg = <<>> THEN latest ELSE call.arg[1]
         IN  (call.current_version + 1)..(IF t > latest THEN latest ELSE t)
    ELSE (call.arg[1] + 1)..call.current_version

\* C22: a version of the processed range that has no registered step is
\* skipped without failing the call: on a store with a trades table migrate
\* and rollback return success, the ledger row of such a version is neither
\* written nor removed, and every registered version of the range is
\* processed (its row written by migrate, removed by rollback).
C22_UnregisteredSkipped ==
    [][(last'.op \in {"migrate", "rollback"} /\ Exists(db, "trades")) =>
          LET range == ProcessedRange(last')
              gaps == range \ last'.migrations
              steps == range \cap last'.migrations
          IN  /\ \A v \in gaps : (v \in Versions(db')) <=> (v \in Versions(db))
              /\ (last'.op = "migrate" \/ range # {}) => last'.ret
              /\ last'.op = "migrate" => steps \subseteq Versions(db')
              /\ last'.op = "rollback" => steps \cap Versions(db') = {}]_vars

\* migrate() of a manager that holds step 2 only, from version 0: version 1
\* was skipped and step 2 applied
C22_Witness ==
    /\ last.op = "migrate"
    /\ last.migrations = {2}
    /\ last.current_version = 0
    /\ last.ret
    /\ Versions(db) = {2}
    /\ db.cols["billing_records"] = BillingColsMigration
    /\ Range(SupplierCols) \cap ColSet(db, "trades") = {}

BootstrapOps == {"init_database", "billing_init_database", "init_table"}

\* the bootstrap routine named op run on store d
Bootstrap(op, d) ==
    CASE op = "init_database" -> init_database(d)
      [] op = "billing_init_database" -> billing_init_database(d)
      [] OTHER -> init_table(d)

\* C23: every bootstrap routine the process runs at start-up, on a fresh
\* store or on a store bootstrapped before, completes without error, and
\* running it once more on the store it left changes neither the set of
\* tables nor their columns.
C23_BootstrapRepeatable ==
    [][last'.op \in BootstrapOps =>
          /\ last'.ret
          /\ Bootstrap(last'.op, db').ok
          /\ Schema(Bootstrap(last'.op, db').db) = Schema(db')]_vars

\* table t of store d exists and holds rows
NonEmpty(d, t) == Exists(d, t) /\ d.rows[t] # {}

\* C24: no bootstrap routine changes the columns or the rows of a table
\* that exists and is non-empty when the routine starts.
C24_BootstrapLeavesTables ==
    [][last'.op \in BootstrapOps =>
          /\ \A t \in DataTables :
                NonEmpty(db, t) =>
                    /\ db'.cols[t] = db.cols[t]
                    /\ db'.rows[t] = db.rows[t]
          /\ db'.ledger = db.ledger]_vars

Products(d) == d.rows["products"]

\* C25: init_database inserts the default products only into an empty
\* products table: on a store whose products table holds a row it succeeds
\* and leaves the rows of products as they were, at every start of the
\* process, so that no product name occurs twice.
C25_SeedOnlyWhenEmpty ==
    [][last'.op = "init_database" =>
          /\ NonEmpty(db, "products") =>
                (last'.ret /\ Products(db') = Products(db))
          /\ \A r1, r2 \in Products(db') : r1.name = r2.name => r1 = r2]_vars

\* init_database ran on a store whose products table held the one product
\* the user had entered, and added none
C25_Witness ==
    /\ last.op = "init_database"
    /\ last.ret
    /\ Products(db) = {ProductRow}

TradeRows(d) == d.rows["trades"]

\* C26: step 1's down, on a store with a trades table and no trades_temp
\* table, returns; and when it returns, trades has exactly the columns it
\* had before step 1 (none of the five supplier columns), holds one row for
\* every row it held before, with the same id and the same value in every
\* remaining column, and no trades_temp table is left.
C26_DownRebuildsTrades ==
    [][(last'.op = "down" /\ last'.arg = <<1>>) =>
          /\ (Exists(db, "trades") /\ ~Exists(db, "trades_temp")) => last'.ret
          /\ last'.ret =>
                /\ db'.cols["trades"] = TradesTempCols
                /\ Range(SupplierCols) \cap ColSet(db', "trades") = {}
                /\ ~Exists(db', "trades_temp")
                /\ Cardinality(TradeRows(db')) = Cardinality(TradeRows(db))
                /\ \A r \in TradeRows(db) : \E r2 \in TradeRows(db') :
                      \A k \in Range(TradesTempCols) : r2[k] = r[k]]_vars

\* step 1's down returned on a store that up had given the supplier columns,
\* and the trade is still there
C26_Witness ==
    /\ last.op = "down"
    /\ last.arg = <<1>>
    /\ last.ret
    /\ last.prev = [op |-> "up", arg |-> <<1>>]
    /\ TradeRows(db) = {TradeRow(1)}
    /\ db.cols["trades"] = TradesTempCols

\* C27: after any sequence of calls of migrate and rollback, those that
\* fail or are stopped part-way included, the versions in the ledger are
\* exactly the registered versions up to the current version: the ledger
\* has no hole below its maximum and holds no unregistered version.
C27_LedgerDense ==
    Versions(db) = {v \in Registered : v <= get_current_version(db)}

\* a rollback from version 2 to 0 stopped after it had reverted step 2: the
\* ledger holds version 1 alone
C27_Witness ==
    /\ last.op = "rollback_fault"
    /\ last.arg = <<0>>
    /\ last.current_version = 2
    /\ Versions(db) = {1}

Returned(p) == proc[p].pc \in {"done", "failed"}

\* C28: when two calls of migrate() interleave on one store, each having
\* read the current version and the columns before the other committed,
\* the ledger never holds a version twice, and once both have returned at
\* least one has returned success, the store is at the latest registered
\* version and every step's schema change is applied exactly once: each
\* supplier column once in trades, billing_records in its canonical shape
\* and no billing_records_old.
C28_RaceConverges ==
    /\ Cardinality(db.ledger) = Cardinality(Versions(db))
    /\ (\A p \in Procs : Returned(p) /\ proc[p].early) =>
          /\ \E p \in Procs : proc[p].ret
          /\ get_current_version(db) = LatestVersion
          /\ \A col \in Range(SupplierCols) :
                Occurrences(db.cols["trades"], col) = 1
          /\ db.cols["billing_records"] = BillingColsMigration
          /\ ~Exists(db, "billing_records_old")

\* C29: for a store at the latest version with a trades table, rollback(0)
\* returns success and a migrate() after it returns success and brings the
\* store back to the latest version, with one ledger row per registered
\* version and the tables and columns the store had before the rollback.
C29_RollbackThenMigrate ==
    [][(/\ last'.op = "rollback"
        /\ last'.arg = <<0>>
        /\ get_current_version(db) = LatestVersion
        /\ Exists(db, "trades")) =>
          LET m == migrate(db', <<>>, clock)
          IN  /\ last'.ret
              /\ m.ret
              /\ get_current_version(m.db) = LatestVersion
              /\ Versions(m.db) = Registered
              /\ Cardinality(m.db.ledger) = Cardinality(Registered)
              /\ Schema(m.db) = Schema(db)]_vars

\* C30: after a rollback that failed or was stopped inside the revert of a
\* step, the same rollback call run again returns success and brings the
\* store to its target; in particular no trades_temp table left by the
\* stopped revert of step 1 makes the next revert of step 1 fail.
C30_RollbackRerunCompletes ==
    [][(/\ last.op = "rollback_fault"
        /\ last'.op = "rollback"
        /\ last'.arg = last.arg) =>
          /\ last'.ret
          /\ get_current_version(db') <= last'.arg[1]]_vars

====
